---- MODULE Spec2Model ----
(***************************************************************************)
(* Model of the graph algorithms of graph_library.py:                      *)
(*   - enumerate_subgraphs / extend_subgraph / exclusive_neighborhood      *)
(*     (ESU enumeration of size-k subgraphs on an igraph graph),           *)
(*   - connected_random_subgraph / all_neighbors (random connected sample  *)
(*     of a networkx DiGraph),                                             *)
(*   - closeness_centrality_matrix (Floyd-Warshall based closeness).       *)
(* Vertices are the indices 0..vcount-1, edges are ordered pairs.          *)
(***************************************************************************)
EXTENDS Integers, Sequences, FiniteSets, TLC

VARIABLES
    vcount,          \* number of vertices of G
    edges,           \* directed edges of G, a set of pairs <<u, w>>
    weight,          \* the "weight" attribute of every edge
    pc,              \* position of the running function
    k,               \* enumerate_subgraphs: requested subgraph size
    v,               \* enumerate_subgraphs: index of the current root vertex
    stack,           \* extend_subgraph: call stack of frames (Vsubgraph, Vextension)
    k_subgraphs,     \* enumerate_subgraphs: the result list
    extend_called,   \* TRUE once extend_subgraph has been called
    n,               \* connected_random_subgraph: requested sample size
    selected_nodes,  \* connected_random_subgraph: list of selected nodes
    candidate_nodes, \* connected_random_subgraph: set of candidate nodes
    nbr_call,        \* the latest call of all_neighbors: its argument and result
    D,               \* closeness_centrality_matrix: distance matrix
    node_index,      \* closeness_centrality_matrix: loop index
    centralities     \* closeness_centrality_matrix: result mapping

vars == <<vcount, edges, weight, pc, k, v, stack, k_subgraphs, extend_called,
          n, selected_nodes, candidate_nodes, nbr_call, D, node_index, centralities>>

esuVars == <<k, v, stack, k_subgraphs, extend_called>>
sampleVars == <<n, selected_nodes, candidate_nodes, nbr_call>>
ccVars == <<D, node_index, centralities>>

----------------------------------------------------------------------------
(* Bounds of the model *)

MaxNodes == 4       \* ESU and sampler: graphs have 1..MaxNodes vertices
MaxEdges == 3       \* ESU and sampler: graphs have at most MaxEdges edges
CcMaxNodes == 3     \* closeness: graphs have 1..CcMaxNodes vertices
CcMaxEdges == 3     \* closeness: graphs have at most CcMaxEdges edges
MaxWeight == 2      \* closeness: weights are non-zero integers in -MaxWeight..MaxWeight

----------------------------------------------------------------------------
(* Graphs *)

Nodes == 0 .. (vcount - 1)

Pairs(m) == (0 .. (m - 1)) \X (0 .. (m - 1))

RECURSIVE SubsetsUpTo(_, _)
SubsetsUpTo(S, m) ==
    IF m = 0 THEN {{}}
    ELSE LET prev == SubsetsUpTo(S, m - 1)
         IN  prev \cup {T \cup {x} : T \in prev, x \in S}

Range(s) == {s[i] : i \in 1 .. Len(s)}

Min(S) == CHOOSE x \in S : \A y \in S : x <= y

successors(x) == {u \in Nodes : <<x, u>> \in edges}

predecessors(x) == {u \in Nodes : <<u, x>> \in edges}

\* the weakly connected component of x in the subgraph induced by S
RECURSIVE WeakGrow(_, _)
WeakGrow(S, R) ==
    LET R2 == R \cup {u \in S : \E r \in R : <<r, u>> \in edges \/ <<u, r>> \in edges}
    IN  IF R2 = R THEN R ELSE WeakGrow(S, R2)

\* nx.weakly_connected_components(G) / igraph clusters(mode=WEAK) of the
\* subgraph induced by S
weakly_connected_components(S) == {WeakGrow(S, {x}) : x \in S}

----------------------------------------------------------------------------
(* ESU enumeration *)

\* faulty variant: neighbours up to distance 2 instead of the direct out-neighbours
neighbors_out_order2(x) == successors(x) \cup UNION {successors(u) : u \in successors(x)}

\* igraph G.neighbors(x, mode="out")
neighbors_out(x) == successors(x)

\* igraph G.neighborhood(x, mode="out"), order 1: x itself and its out-neighbours
neighborhood_out(x) == {x} \cup successors(x)

\* faulty variant: only the vertices of Vp are excluded, not their neighbourhoods
exclusive_neighborhood_own(w, Vp) == (neighborhood_out(w) \ {w}) \ Vp

exclusive_neighborhood(w, Vp) ==
    LET Nv == neighborhood_out(w)
        NVp == UNION {neighborhood_out(u) : u \in Vp}
    IN  Nv \ NVp

\* faulty variant: the canonical filter is dropped
GreaterThanRootAny(S, root) == S

\* faulty variant: the canonical filter is u >= v
GreaterThanRootGeq(S, root) == {u \in S : u >= root}

\* the filter "if u > v" of enumerate_subgraphs and extend_subgraph
GreaterThanRoot(S, root) == {u \in S : u > root}

\* faulty variant: the size test is >= instead of ==
SizeReachedGeq(Vsubgraph, kk) == Cardinality(Vsubgraph) >= kk

\* the test len(Vsubgraph) == k of extend_subgraph
SizeReached(Vsubgraph, kk) == Cardinality(Vsubgraph) = kk

Top == stack[Len(stack)]

\* return of the current extend_subgraph call; the return of the outermost call
\* continues the for loop of enumerate_subgraphs with the next vertex
Pop ==
    /\ stack' = SubSeq(stack, 1, Len(stack) - 1)
    /\ IF Len(stack) = 1
       THEN v' = v + 1 /\ pc' = "enumerate"
       ELSE v' = v /\ pc' = "extend"

\* one iteration of the for loop of enumerate_subgraphs: the call of extend_subgraph
EnumerateCall ==
    /\ pc = "enumerate"
    /\ v < vcount
    /\ stack' = <<[Vsubgraph |-> {v},
                   Vextension |-> GreaterThanRoot(neighbors_out(v), v)]>>
    /\ extend_called' = TRUE
    /\ pc' = "extend"
    /\ UNCHANGED <<vcount, edges, weight, k, v, k_subgraphs>>
    /\ UNCHANGED sampleVars /\ UNCHANGED ccVars

\* the for loop is exhausted: return k_subgraphs
EnumerateReturn ==
    /\ pc = "enumerate"
    /\ v >= vcount
    /\ pc' = "done"
    /\ UNCHANGED <<vcount, edges, weight, k, v, stack, k_subgraphs, extend_called>>
    /\ UNCHANGED sampleVars /\ UNCHANGED ccVars

\* extend_subgraph with len(Vsubgraph) == k: append, assert, return
ExtendRecord ==
    /\ pc = "extend"
    /\ SizeReached(Top.Vsubgraph, k)
    /\ k_subgraphs' = Append(k_subgraphs, Top.Vsubgraph)
    /\ IF Cardinality(weakly_connected_components(Top.Vsubgraph)) = 1
       THEN Pop
       ELSE pc' = "AssertionError" /\ UNCHANGED <<stack, v>>
    /\ UNCHANGED <<vcount, edges, weight, k, extend_called>>
    /\ UNCHANGED sampleVars /\ UNCHANGED ccVars

\* one iteration of the while loop of extend_subgraph: pick w, recurse
ExtendPick ==
    /\ pc = "extend"
    /\ ~SizeReached(Top.Vsubgraph, k)
    /\ Top.Vextension # {}
    /\ \E w \in Top.Vextension :
          LET Vextension == Top.Vextension \ {w}
              NexclwVsubgraph == exclusive_neighborhood(w, Top.Vsubgraph)
              VpExtension == Vextension \cup GreaterThanRoot(NexclwVsubgraph, v)
          IN  stack' = Append([stack EXCEPT ![Len(stack)].Vextension = Vextension],
                              [Vsubgraph |-> Top.Vsubgraph \cup {w},
                               Vextension |-> VpExtension])
    /\ UNCHANGED <<vcount, edges, weight, pc, k, v, k_subgraphs, extend_called>>
    /\ UNCHANGED sampleVars /\ UNCHANGED ccVars

\* the while loop of extend_subgraph is exhausted: return
ExtendReturn ==
    /\ pc = "extend"
    /\ ~SizeReached(Top.Vsubgraph, k)
    /\ Top.Vextension = {}
    /\ Pop
    /\ UNCHANGED <<vcount, edges, weight, k, k_subgraphs, extend_called>>
    /\ UNCHANGED sampleVars /\ UNCHANGED ccVars

NoCall == [node |-> -1, result |-> {}]

InitESU ==
    /\ vcount \in 1 .. MaxNodes
    /\ edges \in SubsetsUpTo(Pairs(vcount), MaxEdges)
    /\ weight = [e \in edges |-> 1]
    /\ pc = "enumerate"
    /\ k \in -1 .. (vcount + 1)
    /\ v = 0
    /\ stack = <<>>
    /\ k_subgraphs = <<>>
    /\ extend_called = FALSE
    /\ n = 0
    /\ selected_nodes = <<>>
    /\ candidate_nodes = {}
    /\ nbr_call = NoCall
    /\ D = <<>>
    /\ node_index = 0
    /\ centralities = <<>>

NextESU ==
    \/ EnumerateCall
    \/ EnumerateReturn
    \/ ExtendRecord
    \/ ExtendPick
    \/ ExtendReturn

SpecESU == InitESU /\ [][NextESU]_vars

----------------------------------------------------------------------------
(* Random connected sample *)

\* faulty variant: the predecessors are left out
all_neighbors_successors(x) == successors(x)

\* all_neighbors(G, x): set(list(G.successors(x)) + list(G.predecessors(x)))
all_neighbors(x) == successors(x) \cup predecessors(x)

\* faulty variant: the size test is >= instead of >
IsLargeGeq(g, nn) == Cardinality(g) >= nn

\* the test len(g) > n on a weakly connected component
IsLarge(g, nn) == Cardinality(g) > nn

\* components = [g for g in nx.weakly_connected_components(G) if len(g) > n]
components == {g \in weakly_connected_components(Nodes) : IsLarge(g, n)}

\* faulty variant: every other node of the component is a candidate
InitialCandidatesComponent(start_node, random_component) ==
    random_component \ {start_node}

\* candidate_nodes = all_neighbors(G, start_node)
InitialCandidates(start_node, random_component) == all_neighbors(start_node)

\* faulty variant: the size test of the loop is <= instead of <
LoopConditionLeq == Len(selected_nodes) <= n /\ Cardinality(candidate_nodes) > 0

\* the condition of the while loop
LoopCondition == Len(selected_nodes) < n /\ Cardinality(candidate_nodes) > 0

\* no component has more than n nodes: raise ValueError
SampleRaise ==
    /\ pc = "sample"
    /\ Cardinality(components) = 0
    /\ pc' = "ValueError"
    /\ UNCHANGED <<vcount, edges, weight>>
    /\ UNCHANGED esuVars /\ UNCHANGED sampleVars /\ UNCHANGED ccVars

\* choice of the component and of the start node, initialisation of the loop
SampleStart ==
    /\ pc = "sample"
    /\ Cardinality(components) # 0
    /\ \E random_component \in components :
          \E start_node \in random_component :
             /\ selected_nodes' = <<start_node>>
             /\ candidate_nodes' = InitialCandidates(start_node, random_component)
             /\ nbr_call' = [node |-> start_node, result |-> all_neighbors(start_node)]
    /\ pc' = "loop"
    /\ UNCHANGED <<vcount, edges, weight, n>>
    /\ UNCHANGED esuVars /\ UNCHANGED ccVars

\* one iteration of the while loop: pick a candidate, remove it from the
\* candidates, append it, add its neighbours that are not selected
SampleStep ==
    /\ pc = "loop"
    /\ LoopCondition
    /\ \E selected_candidate \in candidate_nodes :
          LET selected == Append(selected_nodes, selected_candidate)
          IN  /\ selected_nodes' = selected
              /\ candidate_nodes' =
                    (candidate_nodes \ {selected_candidate})
                       \cup (all_neighbors(selected_candidate) \ Range(selected))
              /\ nbr_call' = [node |-> selected_candidate,
                              result |-> all_neighbors(selected_candidate)]
    /\ UNCHANGED <<vcount, edges, weight, pc, n>>
    /\ UNCHANGED esuVars /\ UNCHANGED ccVars

\* the loop condition is false: return nx.subgraph(G, selected_nodes)
SampleReturn ==
    /\ pc = "loop"
    /\ ~LoopCondition
    /\ pc' = "done"
    /\ UNCHANGED <<vcount, edges, weight>>
    /\ UNCHANGED esuVars /\ UNCHANGED sampleVars /\ UNCHANGED ccVars

\* the node set of the returned subgraph
SampleNodes == Range(selected_nodes)

InitSample ==
    /\ vcount \in 1 .. MaxNodes
    /\ edges \in SubsetsUpTo(Pairs(vcount), MaxEdges)
    /\ weight = [e \in edges |-> 1]
    /\ pc = "sample"
    /\ k = 0
    /\ v = 0
    /\ stack = <<>>
    /\ k_subgraphs = <<>>
    /\ extend_called = FALSE
    /\ n \in -1 .. vcount
    /\ selected_nodes = <<>>
    /\ candidate_nodes = {}
    /\ nbr_call = NoCall
    /\ D = <<>>
    /\ node_index = 0
    /\ centralities = <<>>

NextSample ==
    \/ SampleRaise
    \/ SampleStart
    \/ SampleStep
    \/ SampleReturn

SpecSample == InitSample /\ [][NextSample]_vars

\* the function runs to its end once called: a step that can be taken is taken
FairSpecSample == SpecSample /\ WF_vars(NextSample)

----------------------------------------------------------------------------
(* Closeness centrality *)

\* float("inf"): larger than every sum of edge weights of the model
Inf == 1000000

Plus(a, b) == IF a = Inf \/ b = Inf THEN Inf ELSE a + b

\* the non-zero integer weights of the model
Weights == ((0 - MaxWeight) .. MaxWeight) \ {0}

\* the dense matrix floyd_warshall starts from: the weight of an edge, inf
\* where there is none, and 0 on the diagonal
InitialDistances ==
    [i \in Nodes |-> [j \in Nodes |->
        IF i = j THEN 0
        ELSE IF <<i, j>> \in edges THEN weight[<<i, j>>] ELSE Inf]]

\* the loop of Floyd-Warshall over the intermediate vertex kk. Every round
\* relaxes each pair (i, j) through kk. The library updates the matrix in
\* place; a round reads only row kk and column kk, which the round leaves
\* unchanged unless M[kk][kk] < 0, and a negative diagonal entry stays
\* negative and ends in NegativeCycleError, so taking each round from the
\* matrix of the round before gives the same error or the same matrix
RECURSIVE FloydWarshallLoop(_, _)
FloydWarshallLoop(M, kk) ==
    IF kk >= vcount THEN M
    ELSE FloydWarshallLoop(
            [i \in Nodes |-> [j \in Nodes |->
                LET through == Plus(M[i][kk], M[kk][j])
                IN  IF through < M[i][j] THEN through ELSE M[i][j]]],
            kk + 1)

floyd_warshall == FloydWarshallLoop(InitialDistances, 0)

\* sum of a set of row entries D[i][j], j in J
RECURSIVE RowSum(_, _)
RowSum(row, J) ==
    IF J = {} THEN 0
    ELSE LET j == CHOOSE x \in J : TRUE
         IN  row[j] + RowSum(row, J \ {j})

\* the score of one node as the fraction <<numerator, denominator>> of
\* (count / total) * (count / (n - 1)), or 0.0 as <<0, 1>>
Closeness(possible_paths) ==
    LET shortest_paths == {j \in Nodes : possible_paths[j] # Inf}
        total == RowSum(possible_paths, shortest_paths)
        n_shortest_paths == Cardinality(shortest_paths) - 1
    IN  IF total > 0 /\ vcount > 1
        THEN <<n_shortest_paths * n_shortest_paths, total * (vcount - 1)>>
        ELSE <<0, 1>>

\* scipy's floyd_warshall: the distance matrix, or NegativeCycleError when the
\* diagonal holds a negative entry
CcFloydWarshall ==
    /\ pc = "closeness"
    /\ LET M == floyd_warshall
       IN  IF \E i \in Nodes : M[i][i] < 0
           THEN pc' = "NegativeCycleError" /\ D' = D
           ELSE pc' = "cc_loop" /\ D' = M
    /\ UNCHANGED <<vcount, edges, weight, node_index, centralities>>
    /\ UNCHANGED esuVars /\ UNCHANGED sampleVars

\* one iteration of the for loop over node_index
CcStep ==
    /\ pc = "cc_loop"
    /\ node_index < vcount
    /\ centralities' =
          [i \in 0 .. node_index |->
              IF i = node_index THEN Closeness(D[node_index]) ELSE centralities[i]]
    /\ node_index' = node_index + 1
    /\ UNCHANGED <<vcount, edges, weight, pc, D>>
    /\ UNCHANGED esuVars /\ UNCHANGED sampleVars

\* the for loop is exhausted: return centralities
CcReturn ==
    /\ pc = "cc_loop"
    /\ node_index >= vcount
    /\ pc' = "done"
    /\ UNCHANGED <<vcount, edges, weight>>
    /\ UNCHANGED esuVars /\ UNCHANGED sampleVars /\ UNCHANGED ccVars

InitCloseness ==
    /\ vcount \in 1 .. CcMaxNodes
    /\ edges \in SubsetsUpTo(Pairs(vcount), CcMaxEdges)
    /\ weight \in [edges -> Weights]
    /\ pc = "closeness"
    /\ k = 0
    /\ v = 0
    /\ stack = <<>>
    /\ k_subgraphs = <<>>
    /\ extend_called = FALSE
    /\ n = 0
    /\ selected_nodes = <<>>
    /\ candidate_nodes = {}
    /\ nbr_call = NoCall
    /\ D = <<>>
    /\ node_index = 0
    /\ centralities = <<>>

NextCloseness ==
    \/ CcFloydWarshall
    \/ CcStep
    \/ CcReturn

SpecCloseness == InitCloseness /\ [][NextCloseness]_vars

----------------------------------------------------------------------------
(* Properties of the ESU enumeration *)

\* S induces a connected subgraph when edge direction is ignored: every split
\* of S into two non-empty parts is crossed by an edge
IsWeaklyConnected(S) ==
    /\ S # {}
    /\ \A A \in SUBSET S :
          (A # {} /\ A # S) =>
             \E a \in A, b \in S \ A : <<a, b>> \in edges \/ <<b, a>> \in edges

KSets(kk) == {S \in SUBSET Nodes : Cardinality(S) = kk}

\* the vertices of S reachable from R along directed edges inside S
RECURSIVE OutGrow(_, _)
OutGrow(S, R) ==
    LET R2 == R \cup {u \in S : \E r \in R : <<r, u>> \in edges}
    IN  IF R2 = R THEN R ELSE OutGrow(S, R2)

\* every vertex of S is reachable from the least vertex of S inside S
OutRooted(S) == S # {} /\ OutGrow(S, {Min(S)}) = S

InvalidK == k <= 0 \/ k > vcount

\* C1: for 1 <= k <= n the returned list holds every k-node vertex set whose
\* induced subgraph is connected when edge direction is ignored (and only those)
C1_NoOmissions ==
    (pc = "done" /\ ~InvalidK) =>
        Range(k_subgraphs) = {S \in KSets(k) : IsWeaklyConnected(S)}

\* C2: no vertex set is appended to k_subgraphs twice, whatever the order in
\* which w is picked out of Vextension
C2_NoDuplicates ==
    \A i, j \in 1 .. Len(k_subgraphs) : i # j => k_subgraphs[i] # k_subgraphs[j]

\* a 3-set was recorded whose root has both other vertices in its initial
\* Vextension, so that it could be reached by picking either of them first
C2_Witness ==
    /\ pc = "done"
    /\ k = 3
    /\ \E i \in 1 .. Len(k_subgraphs) :
          (k_subgraphs[i] \ {Min(k_subgraphs[i])}) \subseteq
              neighbors_out(Min(k_subgraphs[i]))

\* C3: every recorded Vsubgraph has exactly k vertices and induces a single
\* weakly connected component; the assertion of extend_subgraph never fails
C3_Soundness ==
    /\ pc # "AssertionError"
    /\ \A i \in 1 .. Len(k_subgraphs) :
          /\ Cardinality(k_subgraphs[i]) = k
          /\ IsWeaklyConnected(k_subgraphs[i])

C3_Witness ==
    /\ pc = "done"
    /\ k >= 3
    /\ Len(k_subgraphs) >= 2

C5_PickOrderIndependent ==
    pc = "done" => Range(k_subgraphs) = {S \in KSets(k) : OutRooted(S)}

\* a run in which some call had at least two candidates to pick from
C5_Witness ==
    /\ pc = "done"
    /\ k >= 3
    /\ k_subgraphs # <<>>
    /\ \E x \in Nodes : Cardinality(GreaterThanRoot(neighbors_out(x), x)) >= 2

\* C11: in every call of extend_subgraph (every frame of the call stack) every
\* element of Vextension is strictly greater than the root index v, v is the
\* least element of Vsubgraph, and Vextension is disjoint from Vsubgraph
C11_FrontierOrdering ==
    \A d \in 1 .. Len(stack) :
        /\ \A u \in stack[d].Vextension : u > v
        /\ v \in stack[d].Vsubgraph
        /\ \A u \in stack[d].Vsubgraph : v <= u
        /\ stack[d].Vextension \cap stack[d].Vsubgraph = {}

\* a nested call, for a valid k and a root other than vertex 0, whose frontier
\* holds a vertex found through the exclusive neighbourhood
C11_Witness ==
    /\ ~InvalidK
    /\ Len(stack) >= 2
    /\ v >= 1
    /\ Top.Vextension \ stack[Len(stack) - 1].Vextension # {}

----------------------------------------------------------------------------
(* Properties of the random connected sample *)

\* C6: whenever connected_random_subgraph returns, the returned node set has at
\* most n nodes, for every n including n = 0
C6_SizeBound ==
    pc = "done" => Cardinality(SampleNodes) <= n

\* C7: after every iteration of the expansion loop and at return, the selected
\* nodes induce a connected subgraph when edge direction is ignored
C7_SampleConnected ==
    pc \in {"loop", "done"} => IsWeaklyConnected(SampleNodes)

C7_Witness ==
    /\ pc = "done"
    /\ Cardinality(SampleNodes) >= 3
    /\ Cardinality(SampleNodes) < vcount

\* some weakly connected node set with more than n nodes contains the nodes X
LargeConnectedSetAround(X) ==
    \E S \in SUBSET Nodes :
        X \subseteq S /\ Cardinality(S) > n /\ IsWeaklyConnected(S)

\* C8: ValueError is raised exactly when no weakly connected component has
\* strictly more than n nodes, it is raised before a start node is chosen, and
\* otherwise the start node lies in a component with more than n nodes
C8_ComponentPrecondition ==
    /\ pc = "ValueError" =>
          (~LargeConnectedSetAround({}) /\ selected_nodes = <<>>)
    /\ pc \in {"loop", "done"} =>
          LargeConnectedSetAround({selected_nodes[1]})

\* the error is raised although a component has exactly n nodes
C8_Witness ==
    /\ pc = "ValueError"
    /\ n >= 2
    /\ \E g \in weakly_connected_components(Nodes) : Cardinality(g) = n

\* C9: all_neighbors(G, x) is (successors(x) union predecessors(x)) minus {x};
\* x is not in the result even when G has the self-loop (x, x)
C9_SelfExcluded ==
    nbr_call # NoCall =>
        nbr_call.result =
            (successors(nbr_call.node) \cup predecessors(nbr_call.node))
                \ {nbr_call.node}

\* the number of iterations of the expansion loop made so far: the loop starts
\* with one selected node
Iterations == Len(selected_nodes) - 1

\* C12 as claimed: the expansion loop makes at most n - 1 iterations
C12_AtMostNMinusOne ==
    pc \in {"loop", "done"} => Iterations <= n - 1

\* what the loop may still do: 0 once the function has returned, otherwise one
\* more than the number of nodes that may still be appended
LoopMeasure ==
    IF pc = "loop"
    THEN 1 + (IF n >= 1 THEN n ELSE 1) - Len(selected_nodes)
    ELSE 0

\* C12 as amended: once a start node is chosen the expansion loop terminates
\* under every sequence of picks (in the loop a step is always possible, and
\* every step lowers LoopMeasure, which is never negative), each iteration
\* appends exactly one node, and the loop makes at most n - 1 iterations when
\* n >= 1 and none when n <= 0
C12_Terminates ==
    /\ [](pc = "loop" => ENABLED NextSample)
    /\ [](LoopMeasure >= 0)
    /\ [][pc = "loop" => LoopMeasure' < LoopMeasure]_vars
    /\ [](pc \in {"loop", "done"} =>
            Iterations <= (IF n >= 1 THEN n - 1 ELSE 0))
    /\ [][(pc = "loop" /\ pc' = "loop") =>
            /\ Len(selected_nodes') = Len(selected_nodes) + 1
            /\ SubSeq(selected_nodes', 1, Len(selected_nodes)) = selected_nodes]_vars

\* the loop ended after exactly n - 1 iterations, at least two
C12_Witness ==
    /\ pc = "done"
    /\ n >= 3
    /\ Iterations = n - 1

\* C13: at the start of every loop iteration and at return, selected_nodes holds
\* no node twice and candidate_nodes is disjoint from the selected nodes, for
\* every directed graph, graphs with self-loops included
C13_Bookkeeping ==
    pc \in {"loop", "done"} =>
        /\ Cardinality(SampleNodes) = Len(selected_nodes)
        /\ candidate_nodes \cap SampleNodes = {}

NoSelfLoops == \A x \in Nodes : <<x, x>> \notin edges

\* C14: on a graph without self-loops and for n >= 1, the loop never finds
\* candidate_nodes empty while fewer than n nodes are selected, and the
\* returned sample has exactly n distinct nodes
C14_NoUnderfill ==
    (NoSelfLoops /\ n >= 1) =>
        /\ (pc = "loop" /\ Len(selected_nodes) < n) => candidate_nodes # {}
        /\ pc = "done" => Cardinality(SampleNodes) = n

\* a sample of n >= 3 nodes returned from a graph without self-loops that has
\* an edge pointing into the sample's first node
C14_Witness ==
    /\ pc = "done"
    /\ NoSelfLoops
    /\ n >= 3
    /\ Cardinality(SampleNodes) = n
    /\ predecessors(selected_nodes[1]) # {}

----------------------------------------------------------------------------
(* Properties of the closeness centrality *)

\* C10: every score of the returned mapping lies in [0, 1], negative edge
\* weights included: 0 <= count * count <= total * (n - 1) for the fraction
\* count * count / (total * (n - 1)) of a score
C10_ScoreRange ==
    pc = "done" =>
        \A i \in DOMAIN centralities :
            /\ 0 <= centralities[i][1]
            /\ centralities[i][1] <= centralities[i][2]

====
